---- MODULE Spec2Model ----
(***************************************************************************)
(* Quota-group control plane of overlord/servicestate: the persisted group *)
(* set ("quotas" key of the state), the mutation operations CreateQuota,   *)
(* RemoveQuota, UpdateQuota and RemoveSnapFromQuota, and the               *)
(* reconciliation of the live unit layer, ensureSnapServicesForGroup.      *)
(***************************************************************************)
EXTENDS Integers, Sequences, FiniteSets, TLC

(***************************************************************************)
(* Bounds and input domains.                                               *)
(***************************************************************************)
GroupNames == {"g1", "g2", "g3"}

InstalledSnaps == {"s1", "s2"}

\* "sx" is a snap name for which snapstate.CurrentInfo fails
SnapNames == InstalledSnaps \cup {"sx"}

MaxLimit == 1

\* 0 is the "no limit given" value of CreateQuota and UpdateQuota
MemoryLimits == 0..MaxLimit

\* Spec explores the hierarchy: three groups, one installed snap and the
\* unknown snap, every group with the same limit
TreeSnapLists == {<<>>, <<"s1">>, <<"sx">>}

TreeSnaps == {"s1", "sx"}

TreeCreateLimits == {MaxLimit}

TreeUpdateLimits == {0}

\* SpecSnaps explores the membership: two groups, two installed snaps and
\* the unknown snap, and every limit
PairGroupNames == {"g1", "g2"}

PairSnapLists == {<<>>, <<"s1">>, <<"s2">>, <<"s1", "s2">>, <<"sx", "s1">>}

\* the longest stream of reports the unit sync hands to the callback
MaxReports == 3

\* the last external call of a reconciliation that can be made to fail
MaxFailAt == 7

MinSystemdVersion == 205

SystemdVersions == {MinSystemdVersion - 1, MinSystemdVersion}

NoGroup == ""

(***************************************************************************)
(* Error values: one per error return of the source.                       *)
(***************************************************************************)
ErrNone == "nil"
ErrFeatureDisabled == "experimental feature disabled"
ErrSystemdTooOld == "systemd version too old"
ErrGroupExists == "group already exists"
ErrSnapUnknown == "cannot use snap in group"
ErrSnapInGroup == "snap already in quota group"
ErrNoParent == "non-existent parent group"
ErrNoGroup == "group does not exist"
ErrHasSubGroups == "cannot remove quota group with sub-groups"
ErrOrphanNoParent == "cannot orphan a sub-group already without a parent"
ErrOrphanAndMove == "cannot both orphan a sub-group and move to a new parent group"
ErrInternal == "internal error: existing parent group does not exist"
ErrSnapNotInGroup == "snap is not in quota group"
ErrBadLimit == "group memory limit must be non-zero"
ErrInconsistent == "group set is inconsistent"
ErrLookup == "cannot find the snap or its options"
ErrExternal == "external call failed"

ValidationErrors ==
    {ErrFeatureDisabled, ErrSystemdTooOld, ErrGroupExists, ErrSnapUnknown,
     ErrSnapInGroup, ErrNoParent, ErrNoGroup, ErrHasSubGroups,
     ErrOrphanNoParent, ErrOrphanAndMove, ErrSnapNotInGroup}

VARIABLES
    quotas,          \* the persisted group set: group name -> group
    featureEnabled,  \* the experimental.quota-groups flag
    systemdVersion,  \* what systemd.Version() returns
    svcUnits,        \* live service units: snap -> slice path it runs in
    slices,          \* live slice units: group name -> memory limit
    last,            \* the last operation called, with its arguments
    err,             \* what the last operation returned
    calls,           \* the external calls the last operation made, in order
    failing,         \* the step of a reconciliation that fails, if one does
    written,         \* the values the last operation has set "quotas" to, in order
    returned         \* what the last accessor returned besides its error

vars == <<quotas, featureEnabled, systemdVersion, svcUnits, slices, last, err, calls,
          failing, written, returned>>

(***************************************************************************)
(* Helpers on lists.                                                       *)
(***************************************************************************)
ListContains(list, s) == \E i \in 1..Len(list) : list[i] = s

\* the "keep every entry but this one" loops of the source
Without(list, s) == SelectSeq(list, LAMBDA e : e # s)

Range(list) == {list[i] : i \in 1..Len(list)}

MinOf(S) == CHOOSE x \in S : \A y \in S : x <= y

EmptyGroups == [g \in {} |-> g]

(***************************************************************************)
(* The quota package and the group set store.                              *)
(***************************************************************************)
Group(name, parent, limit) ==
    [Name |-> name, ParentGroup |-> parent, SubGroups |-> <<>>,
     Snaps |-> <<>>, MemoryLimit |-> limit]

\* cross-reference resolution: every parent link names an existing group
\* that lists the child, every sub-group entry names an existing group whose
\* parent is this group
ResolveCrossReferences(grps) ==
    IF \A n \in DOMAIN grps :
          /\ grps[n].Name = n
          /\ grps[n].ParentGroup # NoGroup =>
                /\ grps[n].ParentGroup \in DOMAIN grps
                /\ ListContains(grps[grps[n].ParentGroup].SubGroups, n)
          /\ \A i \in 1..Len(grps[n].SubGroups) :
                /\ grps[n].SubGroups[i] \in DOMAIN grps
                /\ grps[grps[n].SubGroups[i]].ParentGroup = n
    THEN ErrNone
    ELSE ErrInconsistent

\* a new top-level group; the limit is a positive quantity
NewGroup(name, memoryLimit) ==
    IF memoryLimit = 0
    THEN [err |-> ErrBadLimit]
    ELSE [err |-> ErrNone, grp |-> Group(name, NoGroup, memoryLimit)]

\* a new group attached under parentGrp: the parent's SubGroups gains the
\* name and the child's ParentGroup is set
NewSubGroup(parentGrp, name, memoryLimit) ==
    IF memoryLimit = 0
    THEN [err |-> ErrBadLimit]
    ELSE [err |-> ErrNone,
          grp |-> Group(name, parentGrp.Name, memoryLimit),
          parent |-> [parentGrp EXCEPT !.SubGroups = Append(@, name)]]

\* st.Get("quotas") followed by the cross-reference resolution; a state
\* without the key yields no groups and no error
AllQuotas(stored) ==
    LET resolved == ResolveCrossReferences(stored)
    IN IF resolved # ErrNone
       THEN [err |-> resolved, grps |-> EmptyGroups]
       ELSE [err |-> ErrNone, grps |-> stored]

GetQuota(stored, name) ==
    LET all == AllQuotas(stored)
    IN IF all.err # ErrNone
       THEN [err |-> all.err, found |-> FALSE]
       ELSE IF name \in DOMAIN all.grps
            THEN [err |-> ErrNone, found |-> TRUE, grp |-> all.grps[name]]
            ELSE [err |-> ErrNone, found |-> FALSE]

\* allGrps[grp.Name] = grp for every group of the list, in order
RECURSIVE Overlay(_, _)
Overlay(allGrps, grps) ==
    IF grps = <<>>
    THEN allGrps
    ELSE LET g == Head(grps)
         IN Overlay([n \in DOMAIN allGrps \cup {g.Name} |->
                        IF n = g.Name THEN g ELSE allGrps[n]], Tail(grps))

\* the touched groups replace or extend the stored set, the result is
\* checked for consistency and written as one value; sets is what the
\* stored value is set to, in order
patchQuotas(stored, grps) ==
    LET all == AllQuotas(stored)
        merged == Overlay(all.grps, grps)
        resolved == ResolveCrossReferences(merged)
    IN IF all.err # ErrNone
       THEN [err |-> all.err, grps |-> stored, sets |-> <<>>]
       ELSE IF resolved # ErrNone
            THEN [err |-> resolved, grps |-> stored, sets |-> <<>>]
            ELSE [err |-> ErrNone, grps |-> merged, sets |-> <<merged>>]

(***************************************************************************)
(* Validation helpers of quota_control.go.                                 *)
(***************************************************************************)
\* quotaGroupsAvailable that refuses the minimum version too
quotaGroupsAvailableOffByOne ==
    IF ~featureEnabled
    THEN ErrFeatureDisabled
    ELSE IF systemdVersion <= MinSystemdVersion
         THEN ErrSystemdTooOld
         ELSE ErrNone

quotaGroupsAvailable ==
    IF ~featureEnabled
    THEN ErrFeatureDisabled
    ELSE IF systemdVersion < MinSystemdVersion
         THEN ErrSystemdTooOld
         ELSE ErrNone

\* SnapCheck without the loop over the groups
SnapCheckNoGroups(name, allGrps) ==
    IF name \notin InstalledSnaps
    THEN ErrSnapUnknown
    ELSE ErrNone

\* what the loop body returns for one snap name
SnapCheck(name, allGrps) ==
    IF name \notin InstalledSnaps
    THEN ErrSnapUnknown
    ELSE IF \E g \in DOMAIN allGrps : ListContains(allGrps[g].Snaps, name)
         THEN ErrSnapInGroup
         ELSE ErrNone

\* a loop that returns after its first iteration
validateSnapFirstOnly(snaps, allGrps) ==
    IF snaps = <<>> THEN ErrNone ELSE SnapCheck(snaps[1], allGrps)

\* the error of the first snap of the list that fails its check
validateSnapForAddingToGroup(snaps, allGrps) ==
    LET bad == {i \in 1..Len(snaps) : SnapCheck(snaps[i], allGrps) # ErrNone}
    IN IF bad = {}
       THEN ErrNone
       ELSE SnapCheck(snaps[MinOf(bad)], allGrps)

(***************************************************************************)
(* Reconciliation.                                                         *)
(***************************************************************************)
\* the group names from g up to its top-level ancestor; the walk ends at
\* a group it has seen, so that it ends on any group set
RECURSIVE SlicePath(_, _, _)
SlicePath(g, allGrps, seen) ==
    IF g = NoGroup \/ g \notin DOMAIN allGrps \/ g \in seen
    THEN <<>>
    ELSE <<g>> \o SlicePath(allGrps[g].ParentGroup, allGrps, seen \cup {g})

\* the desired options of one snap: the slice path of the group that lists
\* it, own group first, or the empty path when no group lists it
SnapServiceOptions(sn, allGrps) ==
    LET owners == {g \in DOMAIN allGrps : ListContains(allGrps[g].Snaps, sn)}
    IN IF owners = {}
       THEN <<>>
       ELSE SlicePath(CHOOSE g \in owners : TRUE, allGrps, {})

\* the members of S in the order of the list order
InOrder(order, S) == SelectSeq(order, LAMBDA e : e \in S)

\* the order in which the unit sync reports the slices it changed
GroupOrder == <<"g1", "g2", "g3">>

\* the orders in which a map with the keys S can be walked
AllOrders(S) == {o \in [1..Cardinality(S) -> S] : Range(o) = S}

\* the services of a snap in their startup order
Services(sn) == IF sn = "s1" THEN <<"a", "b">> ELSE <<"a">>

\* what the unit sync tells its callback about one modified unit
SliceReport(g) == [unitType |-> "slice", grp |-> g, snap |-> "", app |-> ""]

ServiceReport(sn, a) == [unitType |-> "service", grp |-> "", snap |-> sn, app |-> a]

\* the order in which the unit sync reports the snaps it changed
SnapOrder == <<"s1", "s2">>

RECURSIVE ServiceReports(_)
ServiceReports(sns) ==
    IF sns = <<>>
    THEN <<>>
    ELSE [i \in 1..Len(Services(Head(sns))) |->
              ServiceReport(Head(sns), Services(Head(sns))[i])]
            \o ServiceReports(Tail(sns))

\* the unit sync: every snap of the map gets the units of its services
\* written with its options, every group on the slice path of one of them
\* gets its slice unit written with its limit; the callback is told each
\* unit that changed, once
EnsureSnapServices(snapSvcMap, allGrps, units, slcs) ==
    LET needed == UNION {Range(snapSvcMap[sn]) : sn \in DOMAIN snapSvcMap}
        modifiedSvcs == {sn \in DOMAIN snapSvcMap : units[sn] # snapSvcMap[sn]}
        modifiedSlices == {g \in needed :
                        g \notin DOMAIN slcs \/ slcs[g] # allGrps[g].MemoryLimit}
    IN [svcUnits |-> [sn \in DOMAIN units |->
                        IF sn \in DOMAIN snapSvcMap THEN snapSvcMap[sn] ELSE units[sn]],
        slices |-> [g \in DOMAIN slcs \cup needed |->
                        IF g \in needed THEN allGrps[g].MemoryLimit ELSE slcs[g]],
        modifiedSvcs |-> modifiedSvcs,
        modifiedSlices |-> modifiedSlices,
        reports |-> [i \in 1..Cardinality(modifiedSlices) |->
                        SliceReport(InOrder(GroupOrder, modifiedSlices)[i])]
                    \o ServiceReports(InOrder(SnapOrder, modifiedSvcs))]

\* the unit sync of one reconciliation: the snaps of the group and the
\* extra snaps, each with its options
SyncOf(grp, allGrps, extraSnaps) ==
    LET sns == Range(grp.Snaps \o extraSnaps)
    IN EnsureSnapServices([sn \in sns |-> SnapServiceOptions(sn, allGrps)],
                          allGrps, svcUnits, slices)

\* the callback: a slice report appends its group to the groups to restart,
\* a service report appends the app to the apps of its snap
collectModifiedUnits(reports) ==
    LET sliceReports == SelectSeq(reports, LAMBDA r : r.unitType = "slice")
        svcReports == SelectSeq(reports, LAMBDA r : r.unitType = "service")
    IN [grpsToRestart |-> [i \in 1..Len(sliceReports) |-> sliceReports[i].grp],
        appsToRestartBySnap |->
            [sn \in {svcReports[i].snap : i \in 1..Len(svcReports)} |->
                LET mine == SelectSeq(svcReports, LAMBDA r : r.snap = sn)
                IN [i \in 1..Len(mine) |-> mine[i].app]]]

\* the apps handed over, in the startup order of the snap
SortServices(sn, apps) == InOrder(Services(sn), Range(apps))

RestartCalls(gs) == [i \in 1..Len(gs) |-> <<"Restart", gs[i]>>]

\* the services that StartServices starts: those of the list that are not
\* in the list of disabled services, in the order of the list
StartServices(apps, disabledSvcs) ==
    SelectSeq(apps, LAMBDA a : a \notin disabledSvcs)

\* one turn of the loop that hands StartServices no disabled service
restartSnapServicesNoneDisabled(sn, apps, disabledSvcs) ==
    <<<<"QueryDisabledServices", sn, disabledSvcs>>,
      <<"SortServices", sn, apps>>,
      <<"StopServices", sn, apps>>,
      <<"StartServices", sn, SortServices(sn, apps), {},
        StartServices(SortServices(sn, apps), {})>>>>

\* one turn of the loop over the snaps with apps to restart: the calls with
\* their arguments; QueryDisabledServices is recorded with its answer and
\* StartServices with the services it starts
restartSnapServices(sn, apps, disabledSvcs) ==
    <<<<"QueryDisabledServices", sn, disabledSvcs>>,
      <<"SortServices", sn, apps>>,
      <<"StopServices", sn, apps>>,
      <<"StartServices", sn, SortServices(sn, apps), disabledSvcs,
        StartServices(SortServices(sn, apps), disabledSvcs)>>>>

\* the loop over the snaps with apps to restart, walked in the order sns
RECURSIVE StopStartCalls(_, _, _)
StopStartCalls(sns, appsToRestartBySnap, disabledSvcs) ==
    IF sns = <<>>
    THEN <<>>
    ELSE LET sn == Head(sns)
         IN restartSnapServices(sn, appsToRestartBySnap[sn], disabledSvcs[sn])
             \o StopStartCalls(Tail(sns), appsToRestartBySnap, disabledSvcs)

\* restartModifiedUnits that stops and starts the apps before it restarts
\* the slices
restartModifiedUnitsServicesFirst(grp, allGrps, reports, order, disabledSvcs) ==
    LET modified == collectModifiedUnits(reports)
    IN StopStartCalls(order, modified.appsToRestartBySnap, disabledSvcs)
        \o RestartCalls(modified.grpsToRestart)
        \o (IF grp.Name \notin DOMAIN allGrps
            THEN <<<<"Stop", grp.Name>>, <<"RemoveQuotaGroup", grp.Name>>>>
            ELSE <<>>)

\* restartModifiedUnits that stops and removes the slice of the group
\* whether the group is in the set or not
restartModifiedUnitsAlwaysStop(grp, allGrps, reports, order, disabledSvcs) ==
    LET modified == collectModifiedUnits(reports)
    IN RestartCalls(modified.grpsToRestart)
        \o <<<<"Stop", grp.Name>>, <<"RemoveQuotaGroup", grp.Name>>>>
        \o StopStartCalls(order, modified.appsToRestartBySnap, disabledSvcs)

\* the calls after the unit sync has reported the units it changed: the
\* slices are restarted, the slice of a group that is not in the set is
\* stopped and removed, the apps are stopped and started snap by snap
restartModifiedUnits(grp, allGrps, reports, order, disabledSvcs) ==
    LET modified == collectModifiedUnits(reports)
    IN RestartCalls(modified.grpsToRestart)
        \o (IF grp.Name \notin DOMAIN allGrps
            THEN <<<<"Stop", grp.Name>>, <<"RemoveQuotaGroup", grp.Name>>>>
            ELSE <<>>)
        \o StopStartCalls(order, modified.appsToRestartBySnap, disabledSvcs)

\* no service of an installed snap is disabled
NoneDisabled == [sn \in InstalledSnaps |-> {}]

\* ensureSnapServicesForGroup that restarts the slice of its group whether
\* or not the unit sync reported it
ensureSnapServicesForGroupAlwaysRestart(grp, allGrps, extraSnaps, synced, order) ==
    LET sns == Range(grp.Snaps \o extraSnaps)
        removed == grp.Name \notin DOMAIN allGrps
    IN [err |-> ErrNone,
        svcUnits |-> synced.svcUnits,
        slices |-> IF removed
                   THEN [g \in DOMAIN synced.slices \ {grp.Name} |-> synced.slices[g]]
                   ELSE synced.slices,
        calls |-> <<<<"EnsureSnapServices", sns>>>>
                   \o restartModifiedUnits(grp, allGrps,
                                           <<SliceReport(grp.Name)>> \o synced.reports,
                                           order, NoneDisabled)]

\* ensureSnapServicesForGroup without the removal of the slice of a group
\* that is not in the set
ensureSnapServicesForGroupNoTombstone(grp, allGrps, extraSnaps, synced, order) ==
    LET sns == Range(grp.Snaps \o extraSnaps)
    IN [err |-> ErrNone,
        svcUnits |-> synced.svcUnits,
        slices |-> synced.slices,
        calls |-> <<<<"EnsureSnapServices", sns>>>>
                   \o restartModifiedUnits(grp, [g \in {grp.Name} |-> grp],
                                           synced.reports, order, NoneDisabled)]

\* synced is the outcome of the unit sync, order is the order in which the
\* map of snaps to restart is walked
ensureSnapServicesForGroup(grp, allGrps, extraSnaps, synced, order) ==
    LET sns == Range(grp.Snaps \o extraSnaps)
        removed == grp.Name \notin DOMAIN allGrps
    IN [err |-> ErrNone,
        svcUnits |-> synced.svcUnits,
        slices |-> IF removed
                   THEN [g \in DOMAIN synced.slices \ {grp.Name} |-> synced.slices[g]]
                   ELSE synced.slices,
        calls |-> <<<<"EnsureSnapServices", sns>>>>
                   \o restartModifiedUnits(grp, allGrps, synced.reports, order,
                                           NoneDisabled)]

(***************************************************************************)
(* How an operation ends.                                                  *)
(***************************************************************************)
\* an error return before the group set is written
Fail(e) ==
    /\ err' = e
    /\ calls' = <<>>
    /\ written' = <<>>
    /\ UNCHANGED <<quotas, svcUnits, slices>>

\* no step of the reconciliation fails
NoFailure == <<"none", 0>>

\* the look-up of a snap or of its options fails
FailLookup == <<"lookup", 0>>

\* the k-th external call of the reconciliation fails
FailCall(k) == <<"call", k>>

\* Interrupted that notes the error of the failing call and goes on with
\* the calls that follow it
InterruptedContinues(r, synced, f) ==
    IF f[1] # "call" \/ f[2] > Len(r.calls)
    THEN r
    ELSE [r EXCEPT !.err = ErrExternal]

\* what a reconciliation whose calls would be those of r leaves when the
\* step f fails: the calls up to the failing one are made, the units are
\* written once the unit sync has returned, the slice of a removed group is
\* gone once RemoveQuotaGroup has returned
Interrupted(r, synced, f) ==
    IF f[1] # "call" \/ f[2] > Len(r.calls)
    THEN r
    ELSE [err |-> ErrExternal,
          calls |-> SubSeq(r.calls, 1, f[2]),
          svcUnits |-> IF r.calls[f[2]][1] = "EnsureSnapServices"
                       THEN svcUnits
                       ELSE synced.svcUnits,
          slices |-> IF r.calls[f[2]][1] = "EnsureSnapServices"
                     THEN slices
                     ELSE IF \E i \in 1..(f[2] - 1) : r.calls[i][1] = "RemoveQuotaGroup"
                          THEN r.slices
                          ELSE synced.slices]

\* Reconcile that puts the stored group set back when the reconciliation
\* fails
ReconcileRollback(sets, grp, extraSnaps) ==
    LET newQuotas == sets[Len(sets)]
    IN
    IF \E sn \in Range(grp.Snaps \o extraSnaps) : sn \notin InstalledSnaps
    THEN /\ quotas' = quotas
         /\ written' = sets \o <<quotas>>
         /\ err' = ErrSnapUnknown
         /\ calls' = <<>>
         /\ UNCHANGED <<svcUnits, slices>>
    ELSE IF failing = FailLookup /\ grp.Snaps \o extraSnaps # <<>>
    THEN /\ quotas' = quotas
         /\ written' = sets \o <<quotas>>
         /\ err' = ErrLookup
         /\ calls' = <<>>
         /\ UNCHANGED <<svcUnits, slices>>
    ELSE LET synced == SyncOf(grp, newQuotas, extraSnaps)
         IN \E order \in AllOrders(synced.modifiedSvcs) :
              LET r == Interrupted(ensureSnapServicesForGroup(grp, newQuotas,
                                       extraSnaps, synced, order), synced, failing)
              IN /\ quotas' = IF r.err = ErrNone THEN newQuotas ELSE quotas
                 /\ written' = IF r.err = ErrNone THEN sets ELSE sets \o <<quotas>>
                 /\ svcUnits' = r.svcUnits
                 /\ slices' = r.slices
                 /\ calls' = r.calls
                 /\ err' = r.err

\* Reconcile in which the look-up of a snap fails only after the unit sync
\* has run
ReconcileLateLookup(sets, grp, extraSnaps) ==
    LET newQuotas == sets[Len(sets)]
    IN
    /\ quotas' = newQuotas
    /\ written' = sets
    /\ IF \E sn \in Range(grp.Snaps \o extraSnaps) : sn \notin InstalledSnaps
       THEN /\ err' = ErrSnapUnknown
            /\ calls' = <<>>
            /\ UNCHANGED <<svcUnits, slices>>
       ELSE LET synced == SyncOf(grp, newQuotas, extraSnaps)
            IN IF failing = FailLookup /\ grp.Snaps \o extraSnaps # <<>>
               THEN /\ err' = ErrLookup
                    /\ calls' = <<<<"EnsureSnapServices", Range(grp.Snaps \o extraSnaps)>>>>
                    /\ svcUnits' = synced.svcUnits
                    /\ slices' = synced.slices
               ELSE \E order \in AllOrders(synced.modifiedSvcs) :
                      LET r == Interrupted(ensureSnapServicesForGroup(grp, newQuotas,
                                          extraSnaps, synced, order), synced, failing)
                      IN /\ svcUnits' = r.svcUnits
                         /\ slices' = r.slices
                         /\ calls' = r.calls
                         /\ err' = r.err

\* the group set is written, then the group is reconciled; a snap of the
\* group that cannot be looked up ends the reconciliation before the unit
\* sync, a failing external call ends it after that call; sets is what the
\* operation has set the stored value to, the last of it is what is stored
\* and what the reconciliation is given
Reconcile(sets, grp, extraSnaps) ==
    LET newQuotas == sets[Len(sets)]
    IN
    /\ quotas' = newQuotas
    /\ written' = sets
    /\ IF \E sn \in Range(grp.Snaps \o extraSnaps) : sn \notin InstalledSnaps
       THEN /\ err' = ErrSnapUnknown
            /\ calls' = <<>>
            /\ UNCHANGED <<svcUnits, slices>>
       ELSE IF failing = FailLookup /\ grp.Snaps \o extraSnaps # <<>>
       THEN /\ err' = ErrLookup
            /\ calls' = <<>>
            /\ UNCHANGED <<svcUnits, slices>>
       ELSE LET synced == SyncOf(grp, newQuotas, extraSnaps)
            IN \E order \in AllOrders(synced.modifiedSvcs) :
                 LET r == Interrupted(ensureSnapServicesForGroup(grp, newQuotas,
                                          extraSnaps, synced, order), synced, failing)
                 IN /\ svcUnits' = r.svcUnits
                    /\ slices' = r.slices
                    /\ calls' = r.calls
                    /\ err' = r.err

Call(op, name, parent, snaps, limit, replace, orphan) ==
    [op |-> op, name |-> name, parent |-> parent, snaps |-> snaps,
     limit |-> limit, replace |-> replace, orphan |-> orphan]

NoCall == Call("none", NoGroup, NoGroup, <<>>, 0, FALSE, FALSE)

\* no accessor has returned
NoValue == [kind |-> "none"]

\* the state lock is held by one operation at a time: an operation starts
\* when no result is pending
Idle == last = NoCall

(***************************************************************************)
(* CreateQuota.                                                            *)
(***************************************************************************)
\* CreateQuotaCheck without the look-up of the name
CreateQuotaCheckNoExists(name, parentName, snaps, allGrps) ==
    LET valid == validateSnapForAddingToGroup(snaps, allGrps)
    IN IF valid # ErrNone
       THEN valid
       ELSE IF parentName # NoGroup /\ parentName \notin DOMAIN allGrps
            THEN ErrNoParent
            ELSE ErrNone

\* the checks before the group is built, in the order of the source
CreateQuotaCheck(name, parentName, snaps, allGrps) ==
    LET valid == validateSnapForAddingToGroup(snaps, allGrps)
    IN IF name \in DOMAIN allGrps
       THEN ErrGroupExists
       ELSE IF valid # ErrNone
            THEN valid
            ELSE IF parentName # NoGroup /\ parentName \notin DOMAIN allGrps
                 THEN ErrNoParent
                 ELSE ErrNone

\* CreateQuotaGroups without the assignment of the snaps to the group
CreateQuotaGroupsNoSnaps(name, parentName, snaps, memoryLimit, allGrps) ==
    LET made == IF parentName # NoGroup
                THEN NewSubGroup(allGrps[parentName], name, memoryLimit)
                ELSE NewGroup(name, memoryLimit)
    IN IF made.err # ErrNone
       THEN [err |-> made.err]
       ELSE [err |-> ErrNone, grp |-> made.grp,
             updatedGrps |-> IF parentName # NoGroup
                             THEN <<made.parent, made.grp>>
                             ELSE <<made.grp>>]

\* CreateQuotaGroups that puts the snaps in the parent group as well
CreateQuotaGroupsParentSnaps(name, parentName, snaps, memoryLimit, allGrps) ==
    LET made == IF parentName # NoGroup
                THEN NewSubGroup(allGrps[parentName], name, memoryLimit)
                ELSE NewGroup(name, memoryLimit)
        grp == [made.grp EXCEPT !.Snaps = snaps]
    IN IF made.err # ErrNone
       THEN [err |-> made.err]
       ELSE [err |-> ErrNone, grp |-> grp,
             updatedGrps |-> IF parentName # NoGroup
                             THEN <<[made.parent EXCEPT !.Snaps = snaps], grp>>
                             ELSE <<grp>>]

\* the groups handed to patchQuotas and the new group
CreateQuotaGroups(name, parentName, snaps, memoryLimit, allGrps) ==
    LET made == IF parentName # NoGroup
                THEN NewSubGroup(allGrps[parentName], name, memoryLimit)
                ELSE NewGroup(name, memoryLimit)
        grp == [made.grp EXCEPT !.Snaps = snaps]
    IN IF made.err # ErrNone
       THEN [err |-> made.err]
       ELSE [err |-> ErrNone, grp |-> grp,
             updatedGrps |-> IF parentName # NoGroup
                             THEN <<made.parent, grp>>
                             ELSE <<grp>>]

\* CreateQuota that sets the stored value once for each group it touched:
\* first with the changed parent, then with the new group as well
CreateQuotaGroupByGroup(name, parentName, snaps, memoryLimit) ==
    LET all == AllQuotas(quotas)
        check == CreateQuotaCheck(name, parentName, snaps, all.grps)
        built == CreateQuotaGroups(name, parentName, snaps, memoryLimit, all.grps)
        patched == patchQuotas(quotas, built.updatedGrps)
        sets == [i \in 1..Len(built.updatedGrps) |->
                    Overlay(all.grps, SubSeq(built.updatedGrps, 1, i))]
    IN /\ Idle
       /\ last' = Call("CreateQuota", name, parentName, snaps, memoryLimit, FALSE, FALSE)
       /\ UNCHANGED <<featureEnabled, systemdVersion, failing, returned>>
       /\ IF quotaGroupsAvailable # ErrNone THEN Fail(quotaGroupsAvailable)
          ELSE IF all.err # ErrNone THEN Fail(all.err)
          ELSE IF check # ErrNone THEN Fail(check)
          ELSE IF built.err # ErrNone THEN Fail(built.err)
          ELSE IF patched.err # ErrNone THEN Fail(patched.err)
          ELSE Reconcile(sets, built.grp, <<>>)

CreateQuota(name, parentName, snaps, memoryLimit) ==
    LET all == AllQuotas(quotas)
        check == CreateQuotaCheck(name, parentName, snaps, all.grps)
        built == CreateQuotaGroups(name, parentName, snaps, memoryLimit, all.grps)
        patched == patchQuotas(quotas, built.updatedGrps)
    IN /\ Idle
       /\ last' = Call("CreateQuota", name, parentName, snaps, memoryLimit, FALSE, FALSE)
       /\ UNCHANGED <<featureEnabled, systemdVersion, failing, returned>>
       /\ IF quotaGroupsAvailable # ErrNone THEN Fail(quotaGroupsAvailable)
          ELSE IF all.err # ErrNone THEN Fail(all.err)
          ELSE IF check # ErrNone THEN Fail(check)
          ELSE IF built.err # ErrNone THEN Fail(built.err)
          ELSE IF patched.err # ErrNone THEN Fail(patched.err)
          ELSE Reconcile(patched.sets, built.grp, <<>>)

(***************************************************************************)
(* RemoveQuota.                                                            *)
(***************************************************************************)
\* RemoveQuotaCheck without the test of the sub-groups
RemoveQuotaCheckNoLeaf(name, allGrps) ==
    IF name \notin DOMAIN allGrps
    THEN ErrNoGroup
    ELSE ErrNone

RemoveQuotaCheck(name, allGrps) ==
    IF name \notin DOMAIN allGrps
    THEN ErrNoGroup
    ELSE IF Len(allGrps[name].SubGroups) # 0
         THEN ErrHasSubGroups
         ELSE ErrNone

\* RemoveQuotaGroups that empties the parent's SubGroups whatever its length
RemoveQuotaGroupsDropSiblings(name, allGrps) ==
    LET parentName == allGrps[name].ParentGroup
        unlinked == IF parentName # NoGroup
                    THEN [allGrps EXCEPT ![parentName].SubGroups = <<>>]
                    ELSE allGrps
    IN [n \in DOMAIN unlinked \ {name} |-> unlinked[n]]

\* RemoveQuotaGroups that removes the link from the parent and leaves the
\* group in the set
RemoveQuotaGroupsNoDelete(name, allGrps) ==
    LET parentName == allGrps[name].ParentGroup
    IN IF parentName # NoGroup
       THEN [allGrps EXCEPT ![parentName].SubGroups =
                IF Len(@) = 1 THEN <<>> ELSE Without(@, name)]
       ELSE allGrps

\* the link from the parent is removed, then the group is deleted
RemoveQuotaGroups(name, allGrps) ==
    LET parentName == allGrps[name].ParentGroup
        unlinked == IF parentName # NoGroup
                    THEN [allGrps EXCEPT ![parentName].SubGroups =
                              IF Len(@) = 1 THEN <<>> ELSE Without(@, name)]
                    ELSE allGrps
    IN [n \in DOMAIN unlinked \ {name} |-> unlinked[n]]

\* RemoveQuota that deletes the group and writes the set, with neither the
\* test of the sub-groups nor the consistency check
RemoveQuotaNaive(name) ==
    LET all == AllQuotas(quotas)
        remaining == [n \in DOMAIN all.grps \ {name} |-> all.grps[n]]
    IN /\ Idle
       /\ last' = Call("RemoveQuota", name, NoGroup, <<>>, 0, FALSE, FALSE)
       /\ UNCHANGED <<featureEnabled, systemdVersion, failing, returned>>
       /\ IF all.err # ErrNone THEN Fail(all.err)
          ELSE IF name \notin DOMAIN all.grps THEN Fail(ErrNoGroup)
          ELSE Reconcile(<<remaining>>, all.grps[name], <<>>)

\* RemoveQuota that reconciles the removed group without its snaps
RemoveQuotaNoSnaps(name) ==
    LET all == AllQuotas(quotas)
        check == RemoveQuotaCheck(name, all.grps)
        remaining == RemoveQuotaGroups(name, all.grps)
    IN /\ Idle
       /\ last' = Call("RemoveQuota", name, NoGroup, <<>>, 0, FALSE, FALSE)
       /\ UNCHANGED <<featureEnabled, systemdVersion, failing, returned>>
       /\ IF all.err # ErrNone THEN Fail(all.err)
          ELSE IF check # ErrNone THEN Fail(check)
          ELSE IF ResolveCrossReferences(remaining) # ErrNone
               THEN Fail(ResolveCrossReferences(remaining))
          ELSE Reconcile(<<remaining>>, [all.grps[name] EXCEPT !.Snaps = <<>>], <<>>)

\* RemoveQuota that asks quotaGroupsAvailable first
RemoveQuotaGated(name) ==
    LET all == AllQuotas(quotas)
        check == RemoveQuotaCheck(name, all.grps)
        remaining == RemoveQuotaGroups(name, all.grps)
    IN /\ Idle
       /\ last' = Call("RemoveQuota", name, NoGroup, <<>>, 0, FALSE, FALSE)
       /\ UNCHANGED <<featureEnabled, systemdVersion, failing, returned>>
       /\ IF quotaGroupsAvailable # ErrNone THEN Fail(quotaGroupsAvailable)
          ELSE IF all.err # ErrNone THEN Fail(all.err)
          ELSE IF check # ErrNone THEN Fail(check)
          ELSE IF ResolveCrossReferences(remaining) # ErrNone
               THEN Fail(ResolveCrossReferences(remaining))
          ELSE Reconcile(<<remaining>>, all.grps[name], <<>>)

RemoveQuota(name) ==
    LET all == AllQuotas(quotas)
        check == RemoveQuotaCheck(name, all.grps)
        remaining == RemoveQuotaGroups(name, all.grps)
    IN /\ Idle
       /\ last' = Call("RemoveQuota", name, NoGroup, <<>>, 0, FALSE, FALSE)
       /\ UNCHANGED <<featureEnabled, systemdVersion, failing, returned>>
       /\ IF all.err # ErrNone THEN Fail(all.err)
          ELSE IF check # ErrNone THEN Fail(check)
          ELSE IF ResolveCrossReferences(remaining) # ErrNone
               THEN Fail(ResolveCrossReferences(remaining))
          ELSE Reconcile(<<remaining>>, all.grps[name], <<>>)

(***************************************************************************)
(* UpdateQuota.                                                            *)
(***************************************************************************)
QuotaGroupUpdate(groups, snapLists, limits) ==
    [AddSnaps : snapLists, NewMemoryLimit : limits, ReplaceSnaps : BOOLEAN,
     NewParentGroup : groups \cup {NoGroup}, OrphanSubGroup : BOOLEAN]

\* UpdateQuotaCheck without the test of orphaning together with a new parent
UpdateQuotaCheckNoConflict(name, updateOpts, allGrps) ==
    IF name \notin DOMAIN allGrps
    THEN ErrNoGroup
    ELSE IF updateOpts.OrphanSubGroup /\ allGrps[name].ParentGroup = NoGroup
    THEN ErrOrphanNoParent
    ELSE IF /\ updateOpts.NewParentGroup # NoGroup
            /\ updateOpts.NewParentGroup \notin DOMAIN allGrps
    THEN ErrNoParent
    ELSE validateSnapForAddingToGroup(updateOpts.AddSnaps, allGrps)

\* the checks before the group is changed, in the order of the source
UpdateQuotaCheck(name, updateOpts, allGrps) ==
    IF name \notin DOMAIN allGrps
    THEN ErrNoGroup
    ELSE IF updateOpts.OrphanSubGroup /\ allGrps[name].ParentGroup = NoGroup
    THEN ErrOrphanNoParent
    ELSE IF updateOpts.OrphanSubGroup /\ updateOpts.NewParentGroup # NoGroup
    THEN ErrOrphanAndMove
    ELSE IF /\ updateOpts.NewParentGroup # NoGroup
            /\ updateOpts.NewParentGroup \notin DOMAIN allGrps
    THEN ErrNoParent
    ELSE validateSnapForAddingToGroup(updateOpts.AddSnaps, allGrps)

\* UpdateQuotaMembers that appends the snaps and leaves the limit
UpdateQuotaMembersKeepLimit(name, updateOpts, allGrps) ==
    [allGrps EXCEPT ![name].Snaps = @ \o updateOpts.AddSnaps]

\* UpdateQuotaMembers that sets the limit without the test for zero
UpdateQuotaMembersAnyLimit(name, updateOpts, allGrps) ==
    [allGrps EXCEPT
        ![name].Snaps = @ \o updateOpts.AddSnaps,
        ![name].MemoryLimit = updateOpts.NewMemoryLimit]

\* the snaps are appended and the limit is set
UpdateQuotaMembers(name, updateOpts, allGrps) ==
    [allGrps EXCEPT
        ![name].Snaps = @ \o updateOpts.AddSnaps,
        ![name].MemoryLimit = IF updateOpts.NewMemoryLimit # 0
                              THEN updateOpts.NewMemoryLimit
                              ELSE @]

\* UpdateQuotaLinks that adds the group to its new parent and leaves the
\* SubGroups of the old parent as they are
UpdateQuotaLinksNoCut(name, updateOpts, allGrps) ==
    LET old == allGrps[name].ParentGroup
        new == updateOpts.NewParentGroup
        cut == [allGrps EXCEPT ![old].SubGroups = Without(@, name)]
    IN IF updateOpts.OrphanSubGroup
       THEN IF old \notin DOMAIN allGrps
            THEN [err |-> ErrInternal]
            ELSE [err |-> ErrNone,
                  grps |-> [cut EXCEPT ![name].ParentGroup = NoGroup],
                  modified |-> <<name, old>>]
       ELSE IF new # NoGroup
       THEN IF old # NoGroup /\ old \notin DOMAIN allGrps
            THEN [err |-> ErrInternal]
            ELSE [err |-> ErrNone,
                  grps |-> [[allGrps EXCEPT ![new].SubGroups = Append(@, name)]
                               EXCEPT ![name].ParentGroup = new],
                  modified |-> IF old # NoGroup
                               THEN <<name, old, new>>
                               ELSE <<name, new>>]
       ELSE [err |-> ErrNone, grps |-> allGrps, modified |-> <<name>>]

\* the group set after the links are changed, and the names of the groups
\* handed to patchQuotas; the groups are changed in place, so a group that
\* is reached under two names is changed once
UpdateQuotaLinks(name, updateOpts, allGrps) ==
    LET old == allGrps[name].ParentGroup
        new == updateOpts.NewParentGroup
        cut == [allGrps EXCEPT ![old].SubGroups = Without(@, name)]
    IN IF updateOpts.OrphanSubGroup
       THEN IF old \notin DOMAIN allGrps
            THEN [err |-> ErrInternal]
            ELSE [err |-> ErrNone,
                  grps |-> [cut EXCEPT ![name].ParentGroup = NoGroup],
                  modified |-> <<name, old>>]
       ELSE IF new # NoGroup
       THEN IF old # NoGroup
            THEN IF old \notin DOMAIN allGrps
                 THEN [err |-> ErrInternal]
                 ELSE [err |-> ErrNone,
                       grps |-> [[cut EXCEPT ![new].SubGroups = Append(@, name)]
                                    EXCEPT ![name].ParentGroup = new],
                       modified |-> <<name, old, new>>]
            ELSE [err |-> ErrNone,
                  grps |-> [[allGrps EXCEPT ![new].SubGroups = Append(@, name)]
                               EXCEPT ![name].ParentGroup = new],
                  modified |-> <<name, new>>]
       ELSE [err |-> ErrNone, grps |-> allGrps, modified |-> <<name>>]

\* UpdateQuota that validates the snaps of AddSnaps after the group set is
\* written instead of before
UpdateQuotaLateValidate(name, updateOpts) ==
    LET all == AllQuotas(quotas)
        check == UpdateQuotaCheck(name, [updateOpts EXCEPT !.AddSnaps = <<>>], all.grps)
        valid == validateSnapForAddingToGroup(updateOpts.AddSnaps, all.grps)
        linked == UpdateQuotaLinks(name, updateOpts,
                                   UpdateQuotaMembers(name, updateOpts, all.grps))
        modifiedGrps == [i \in 1..Len(linked.modified) |-> linked.grps[linked.modified[i]]]
        patched == patchQuotas(quotas, modifiedGrps)
    IN /\ Idle
       /\ last' = Call("UpdateQuota", name, updateOpts.NewParentGroup,
                       updateOpts.AddSnaps, updateOpts.NewMemoryLimit,
                       updateOpts.ReplaceSnaps, updateOpts.OrphanSubGroup)
       /\ UNCHANGED <<featureEnabled, systemdVersion, failing, returned>>
       /\ IF quotaGroupsAvailable # ErrNone THEN Fail(quotaGroupsAvailable)
          ELSE IF all.err # ErrNone THEN Fail(all.err)
          ELSE IF check # ErrNone THEN Fail(check)
          ELSE IF linked.err # ErrNone THEN Fail(linked.err)
          ELSE IF patched.err # ErrNone THEN Fail(patched.err)
          ELSE IF valid # ErrNone
               THEN /\ quotas' = patched.grps
                    /\ written' = patched.sets
                    /\ err' = valid
                    /\ calls' = <<>>
                    /\ UNCHANGED <<svcUnits, slices>>
               ELSE Reconcile(patched.sets, linked.grps[name], <<>>)

\* UpdateQuota that writes the group and its new parent and leaves the old
\* parent as it is stored
UpdateQuotaStaleOldParent(name, updateOpts) ==
    LET all == AllQuotas(quotas)
        check == UpdateQuotaCheck(name, updateOpts, all.grps)
        linked == UpdateQuotaLinks(name, updateOpts,
                                   UpdateQuotaMembers(name, updateOpts, all.grps))
        old == all.grps[name].ParentGroup
        kept == SelectSeq(linked.modified, LAMBDA g : g = name \/ g # old)
        modifiedGrps == [i \in 1..Len(kept) |-> linked.grps[kept[i]]]
    IN /\ Idle
       /\ last' = Call("UpdateQuota", name, updateOpts.NewParentGroup,
                       updateOpts.AddSnaps, updateOpts.NewMemoryLimit,
                       updateOpts.ReplaceSnaps, updateOpts.OrphanSubGroup)
       /\ UNCHANGED <<featureEnabled, systemdVersion, failing, returned>>
       /\ IF quotaGroupsAvailable # ErrNone THEN Fail(quotaGroupsAvailable)
          ELSE IF all.err # ErrNone THEN Fail(all.err)
          ELSE IF check # ErrNone THEN Fail(check)
          ELSE IF linked.err # ErrNone THEN Fail(linked.err)
          ELSE Reconcile(<<Overlay(all.grps, modifiedGrps)>>, linked.grps[name], <<>>)

\* UpdateQuota that writes the new snaps and the new limit of the group
\* before it tests the orphaning and the new parent
UpdateQuotaLateLinkCheck(name, updateOpts) ==
    LET all == AllQuotas(quotas)
        memberOpts == [updateOpts EXCEPT !.NewParentGroup = NoGroup,
                                         !.OrphanSubGroup = FALSE]
        early == UpdateQuotaCheck(name, memberOpts, all.grps)
        check == UpdateQuotaCheck(name, updateOpts, all.grps)
        members == UpdateQuotaMembers(name, updateOpts, all.grps)
        first == patchQuotas(quotas, <<members[name]>>)
        linked == UpdateQuotaLinks(name, updateOpts, members)
        modifiedGrps == [i \in 1..Len(linked.modified) |-> linked.grps[linked.modified[i]]]
        patched == patchQuotas(quotas, modifiedGrps)
    IN /\ Idle
       /\ last' = Call("UpdateQuota", name, updateOpts.NewParentGroup,
                       updateOpts.AddSnaps, updateOpts.NewMemoryLimit,
                       updateOpts.ReplaceSnaps, updateOpts.OrphanSubGroup)
       /\ UNCHANGED <<featureEnabled, systemdVersion, failing, returned>>
       /\ IF quotaGroupsAvailable # ErrNone THEN Fail(quotaGroupsAvailable)
          ELSE IF all.err # ErrNone THEN Fail(all.err)
          ELSE IF early # ErrNone THEN Fail(early)
          ELSE IF first.err # ErrNone THEN Fail(first.err)
          ELSE IF check # ErrNone
               THEN /\ quotas' = first.grps
                    /\ written' = first.sets
                    /\ err' = check
                    /\ calls' = <<>>
                    /\ UNCHANGED <<svcUnits, slices>>
          ELSE IF linked.err # ErrNone THEN Fail(linked.err)
          ELSE IF patched.err # ErrNone THEN Fail(patched.err)
          ELSE Reconcile(patched.sets, linked.grps[name], <<>>)

UpdateQuota(name, updateOpts) ==
    LET all == AllQuotas(quotas)
        check == UpdateQuotaCheck(name, updateOpts, all.grps)
        linked == UpdateQuotaLinks(name, updateOpts,
                                   UpdateQuotaMembers(name, updateOpts, all.grps))
        modifiedGrps == [i \in 1..Len(linked.modified) |-> linked.grps[linked.modified[i]]]
        patched == patchQuotas(quotas, modifiedGrps)
    IN /\ Idle
       /\ last' = Call("UpdateQuota", name, updateOpts.NewParentGroup,
                       updateOpts.AddSnaps, updateOpts.NewMemoryLimit,
                       updateOpts.ReplaceSnaps, updateOpts.OrphanSubGroup)
       /\ UNCHANGED <<featureEnabled, systemdVersion, failing, returned>>
       /\ IF quotaGroupsAvailable # ErrNone THEN Fail(quotaGroupsAvailable)
          ELSE IF all.err # ErrNone THEN Fail(all.err)
          ELSE IF check # ErrNone THEN Fail(check)
          ELSE IF linked.err # ErrNone THEN Fail(linked.err)
          ELSE IF patched.err # ErrNone THEN Fail(patched.err)
          ELSE Reconcile(patched.sets, linked.grps[name], <<>>)

(***************************************************************************)
(* RemoveSnapFromQuota.                                                    *)
(***************************************************************************)
RemoveSnapFromQuotaCheck(group, snap, allGrps) ==
    IF group \notin DOMAIN allGrps
    THEN ErrNoGroup
    ELSE IF ~ListContains(allGrps[group].Snaps, snap)
         THEN ErrSnapNotInGroup
         ELSE ErrNone

\* RemoveSnapFromQuota that reconciles the group without the extra snap
RemoveSnapFromQuotaNoExtra(group, snap) ==
    LET all == AllQuotas(quotas)
        check == RemoveSnapFromQuotaCheck(group, snap, all.grps)
        grp == [all.grps[group] EXCEPT !.Snaps = Without(@, snap)]
        patched == patchQuotas(quotas, <<grp>>)
    IN /\ Idle
       /\ last' = Call("RemoveSnapFromQuota", group, NoGroup, <<snap>>, 0, FALSE, FALSE)
       /\ UNCHANGED <<featureEnabled, systemdVersion, failing, returned>>
       /\ IF all.err # ErrNone THEN Fail(all.err)
          ELSE IF check # ErrNone THEN Fail(check)
          ELSE IF patched.err # ErrNone THEN Fail(patched.err)
          ELSE Reconcile(patched.sets, grp, <<>>)

RemoveSnapFromQuota(group, snap) ==
    LET all == AllQuotas(quotas)
        check == RemoveSnapFromQuotaCheck(group, snap, all.grps)
        grp == [all.grps[group] EXCEPT !.Snaps = Without(@, snap)]
        patched == patchQuotas(quotas, <<grp>>)
    IN /\ Idle
       /\ last' = Call("RemoveSnapFromQuota", group, NoGroup, <<snap>>, 0, FALSE, FALSE)
       /\ UNCHANGED <<featureEnabled, systemdVersion, failing, returned>>
       /\ IF all.err # ErrNone THEN Fail(all.err)
          ELSE IF check # ErrNone THEN Fail(check)
          ELSE IF patched.err # ErrNone THEN Fail(patched.err)
          ELSE Reconcile(patched.sets, grp, <<snap>>)

(***************************************************************************)
(* The accessors and SetQuota of quotas.go, called on their own.           *)
(***************************************************************************)
\* the accessor returns e and the value v and changes nothing
Answer(e, v) ==
    /\ err' = e
    /\ returned' = v
    /\ calls' = <<>>
    /\ written' = <<>>
    /\ UNCHANGED <<quotas, featureEnabled, systemdVersion, svcUnits, slices, failing>>

\* a call of AllQuotas: the groups, or nil with the error
CallAllQuotas ==
    LET all == AllQuotas(quotas)
    IN /\ Idle
       /\ last' = Call("AllQuotas", NoGroup, NoGroup, <<>>, 0, FALSE, FALSE)
       /\ IF all.err # ErrNone
          THEN Answer(all.err, [kind |-> "nil"])
          ELSE Answer(ErrNone, [kind |-> "groups", grps |-> all.grps])

\* GetQuota that returns an error for a name that is not in the set
CallGetQuotaNotFound(name) ==
    LET got == GetQuota(quotas, name)
    IN /\ Idle
       /\ last' = Call("GetQuota", name, NoGroup, <<>>, 0, FALSE, FALSE)
       /\ IF got.err # ErrNone
          THEN Answer(got.err, [kind |-> "nil"])
          ELSE IF got.found
               THEN Answer(ErrNone, [kind |-> "group", grp |-> got.grp])
               ELSE Answer(ErrNoGroup, [kind |-> "nil"])

\* a call of GetQuota: the group of that name, or nil when there is none
CallGetQuota(name) ==
    LET got == GetQuota(quotas, name)
    IN /\ Idle
       /\ last' = Call("GetQuota", name, NoGroup, <<>>, 0, FALSE, FALSE)
       /\ IF got.err # ErrNone
          THEN Answer(got.err, [kind |-> "nil"])
          ELSE IF got.found
               THEN Answer(ErrNone, [kind |-> "group", grp |-> got.grp])
               ELSE Answer(ErrNone, [kind |-> "nil"])

\* the call record of SetQuota carries the group it was given
CallOfSetQuota(grp) ==
    [op |-> "SetQuota", name |-> grp.Name, parent |-> grp.ParentGroup,
     snaps |-> grp.Snaps, limit |-> grp.MemoryLimit, replace |-> FALSE,
     orphan |-> FALSE, grp |-> grp]

\* the set is loaded, the entry of the name of the group is set to the
\* group, the set is saved
SetQuota(grp) ==
    LET all == AllQuotas(quotas)
        allGrps == Overlay(all.grps, <<grp>>)
    IN /\ Idle
       /\ last' = CallOfSetQuota(grp)
       /\ UNCHANGED <<featureEnabled, systemdVersion, failing, returned>>
       /\ IF all.err # ErrNone THEN Fail(all.err)
          ELSE /\ quotas' = allGrps
               /\ written' = <<allGrps>>
               /\ err' = ErrNone
               /\ calls' = <<>>
               /\ UNCHANGED <<svcUnits, slices>>

(***************************************************************************)
(* The operation returns: its caller takes the result and releases the     *)
(* state lock.                                                             *)
(***************************************************************************)
Return ==
    /\ ~Idle
    /\ last' = NoCall
    /\ err' = ErrNone
    /\ calls' = <<>>
    /\ written' = <<>>
    /\ returned' = NoValue
    /\ UNCHANGED <<quotas, featureEnabled, systemdVersion, svcUnits, slices, failing>>

(***************************************************************************)
(* The specification: a fresh state, no group set stored, no snap in a     *)
(* slice; the flag and the service manager are what the system has.        *)
(***************************************************************************)
Init ==
    /\ quotas = EmptyGroups
    /\ featureEnabled \in BOOLEAN
    /\ systemdVersion \in SystemdVersions
    /\ svcUnits = [sn \in InstalledSnaps |-> <<>>]
    /\ slices = EmptyGroups
    /\ last = NoCall
    /\ err = ErrNone
    /\ calls = <<>>
    /\ failing = NoFailure
    /\ written = <<>>
    /\ returned = NoValue

Next ==
    \/ \E name \in GroupNames, parentName \in GroupNames \cup {NoGroup},
          snaps \in TreeSnapLists, memoryLimit \in TreeCreateLimits :
            CreateQuota(name, parentName, snaps, memoryLimit)
    \/ \E name \in GroupNames : RemoveQuota(name)
    \/ \E name \in GroupNames,
          updateOpts \in QuotaGroupUpdate(GroupNames, TreeSnapLists, TreeUpdateLimits) :
            UpdateQuota(name, updateOpts)
    \/ \E group \in GroupNames, snap \in TreeSnaps :
            RemoveSnapFromQuota(group, snap)
    \/ Return

Spec == Init /\ [][Next]_vars

NextSnaps ==
    \/ \E name \in PairGroupNames, parentName \in PairGroupNames \cup {NoGroup},
          snaps \in PairSnapLists, memoryLimit \in MemoryLimits :
            CreateQuota(name, parentName, snaps, memoryLimit)
    \/ \E name \in PairGroupNames : RemoveQuota(name)
    \/ \E name \in PairGroupNames,
          updateOpts \in QuotaGroupUpdate(PairGroupNames, PairSnapLists, MemoryLimits) :
            UpdateQuota(name, updateOpts)
    \/ \E group \in PairGroupNames, snap \in SnapNames :
            RemoveSnapFromQuota(group, snap)
    \/ Return

SpecSnaps == Init /\ [][NextSnaps]_vars

(***************************************************************************)
(* The operations when a step of the reconciliation fails.                 *)
(***************************************************************************)
Failures == {NoFailure, FailLookup} \cup {FailCall(k) : k \in 1..MaxFailAt}

FailingSnapLists == {<<>>, <<"s1">>}

\* the next reconciliation meets the failure f
InjectFailure(f) ==
    /\ Idle
    /\ failing' = f
    /\ UNCHANGED <<quotas, featureEnabled, systemdVersion, svcUnits, slices,
                   last, err, calls, written, returned>>

NextFailing ==
    \/ \E name \in PairGroupNames, parentName \in PairGroupNames \cup {NoGroup},
          snaps \in FailingSnapLists :
            CreateQuota(name, parentName, snaps, MaxLimit)
    \/ \E name \in PairGroupNames : RemoveQuota(name)
    \/ \E name \in PairGroupNames,
          updateOpts \in QuotaGroupUpdate(PairGroupNames, FailingSnapLists, TreeUpdateLimits) :
            UpdateQuota(name, updateOpts)
    \/ \E group \in PairGroupNames, snap \in TreeSnaps :
            RemoveSnapFromQuota(group, snap)
    \/ \E f \in Failures : InjectFailure(f)
    \/ Return

SpecFailing == Init /\ [][NextFailing]_vars

(***************************************************************************)
(* The operations while the feature flag and the systemd of the host       *)
(* change between them.                                                    *)
(***************************************************************************)
\* the flag is set or unset, systemd is replaced
Configure(flag, version) ==
    /\ Idle
    /\ featureEnabled' = flag
    /\ systemdVersion' = version
    /\ UNCHANGED <<quotas, svcUnits, slices, last, err, calls, failing, written,
                   returned>>

NextConfigured ==
    \/ \E name \in PairGroupNames, parentName \in PairGroupNames \cup {NoGroup},
          snaps \in FailingSnapLists :
            CreateQuota(name, parentName, snaps, MaxLimit)
    \/ \E name \in PairGroupNames : RemoveQuota(name)
    \/ \E name \in PairGroupNames,
          updateOpts \in QuotaGroupUpdate(PairGroupNames, FailingSnapLists, TreeUpdateLimits) :
            UpdateQuota(name, updateOpts)
    \/ \E group \in PairGroupNames, snap \in TreeSnaps :
            RemoveSnapFromQuota(group, snap)
    \/ \E flag \in BOOLEAN, version \in SystemdVersions : Configure(flag, version)
    \/ Return

SpecConfigured == Init /\ [][NextConfigured]_vars

(***************************************************************************)
(* The operations with lists that name a snap twice and with limits that   *)
(* are zero or one of two quantities.                                      *)
(***************************************************************************)
DupSnapLists == {<<>>, <<"s1">>, <<"s1", "s1">>}

LimitValues == {0, MaxLimit, MaxLimit + 1}

NextLimits ==
    \/ \E name \in PairGroupNames, parentName \in PairGroupNames \cup {NoGroup},
          snaps \in DupSnapLists, memoryLimit \in LimitValues :
            CreateQuota(name, parentName, snaps, memoryLimit)
    \/ \E name \in PairGroupNames : RemoveQuota(name)
    \/ \E name \in PairGroupNames,
          updateOpts \in QuotaGroupUpdate(PairGroupNames, DupSnapLists, LimitValues) :
            UpdateQuota(name, updateOpts)
    \/ \E group \in PairGroupNames : RemoveSnapFromQuota(group, "s1")
    \/ Return

SpecLimits == Init /\ [][NextLimits]_vars

(***************************************************************************)
(* The group set store: SetQuota with any group, the accessors, and        *)
(* CreateQuota, RemoveQuota and UpdateQuota on what is stored.             *)
(***************************************************************************)
\* the groups handed to SetQuota
SetQuotaGroups ==
    [Name : PairGroupNames, ParentGroup : PairGroupNames \cup {NoGroup},
     SubGroups : {<<>>, <<"g1">>, <<"g2">>}, Snaps : FailingSnapLists,
     MemoryLimit : {MaxLimit}]

NextStore ==
    \/ \E grp \in SetQuotaGroups : SetQuota(grp)
    \/ CallAllQuotas
    \/ \E name \in PairGroupNames : CallGetQuota(name)
    \/ \E name \in PairGroupNames, parentName \in PairGroupNames \cup {NoGroup},
          snaps \in FailingSnapLists :
            CreateQuota(name, parentName, snaps, MaxLimit)
    \/ \E name \in PairGroupNames : RemoveQuota(name)
    \/ \E name \in PairGroupNames,
          updateOpts \in QuotaGroupUpdate(PairGroupNames, {<<>>}, TreeUpdateLimits) :
            UpdateQuota(name, updateOpts)
    \/ Return

SpecStore == Init /\ [][NextStore]_vars

(***************************************************************************)
(* The reconciliation on any stream of reports: the unit sync is outside   *)
(* of this code, which only consumes what its callback is told.            *)
(***************************************************************************)
ReportedUnits ==
    {SliceReport(g) : g \in PairGroupNames}
        \cup UNION {{ServiceReport(sn, a) : a \in Range(Services(sn))} :
                       sn \in InstalledSnaps}

ReportStreams == UNION {[1..n -> ReportedUnits] : n \in 0..MaxReports}

\* what QueryDisabledServices answers for each snap
DisabledServices == {NoneDisabled, [sn \in InstalledSnaps |-> {"b"}]}

\* ensureSnapServicesForGroup of the group of this name, stored or just
\* removed, when the unit sync reports the stream to the callback
ReconcileReported(name, reports, disabledSvcs) ==
    LET grp == IF name \in DOMAIN quotas
               THEN quotas[name]
               ELSE Group(name, NoGroup, MaxLimit)
        modified == collectModifiedUnits(reports)
    IN /\ Idle
       /\ last' = Call("ensureSnapServicesForGroup", name, NoGroup, grp.Snaps,
                       0, FALSE, FALSE)
       /\ err' = ErrNone
       /\ \E order \in AllOrders(DOMAIN modified.appsToRestartBySnap) :
             calls' = <<<<"EnsureSnapServices", Range(grp.Snaps)>>>>
                        \o restartModifiedUnits(grp, quotas, reports, order,
                                                disabledSvcs)
       /\ slices' = [g \in DOMAIN slices \ (IF name \in DOMAIN quotas
                                            THEN {} ELSE {name}) |-> slices[g]]
       /\ UNCHANGED <<quotas, featureEnabled, systemdVersion, svcUnits, failing,
                      written, returned>>

NextReported ==
    \/ \E snaps \in {<<>>, <<"s1">>} : CreateQuota("g1", NoGroup, snaps, MaxLimit)
    \/ \E name \in PairGroupNames, reports \in ReportStreams,
          disabledSvcs \in DisabledServices :
            ReconcileReported(name, reports, disabledSvcs)
    \/ Return

SpecReported == Init /\ [][NextReported]_vars

(***************************************************************************)
(* Properties.                                                             *)
(***************************************************************************)
MutationOps == {"CreateQuota", "RemoveQuota", "UpdateQuota", "RemoveSnapFromQuota"}

\* the step is a call of op that has returned
Called(op) == Idle /\ last'.op = op

\* the last operation was op and it succeeded
Succeeded(op) == last.op = op /\ err = ErrNone

\* the groups reached from g by following ParentGroup one to n times
RECURSIVE Ancestors(_, _, _)
Ancestors(g, grps, n) ==
    IF n = 0 \/ g \notin DOMAIN grps \/ grps[g].ParentGroup = NoGroup
    THEN {}
    ELSE {grps[g].ParentGroup} \cup Ancestors(grps[g].ParentGroup, grps, n - 1)

\* the persisted group set and the live units are what they were
NothingDone ==
    /\ quotas' = quotas
    /\ svcUnits' = svcUnits
    /\ slices' = slices
    /\ calls' = <<>>

\* C1: in the persisted group set every group is top-level or names an
\* existing parent whose SubGroups lists it, and every entry of a SubGroups
\* list names an existing group whose ParentGroup is the listing group.
C1_TreeShape ==
    \A n \in DOMAIN quotas :
        /\ \/ quotas[n].ParentGroup = NoGroup
           \/ /\ quotas[n].ParentGroup \in DOMAIN quotas
              /\ ListContains(quotas[quotas[n].ParentGroup].SubGroups, n)
        /\ \A i \in 1..Len(quotas[n].SubGroups) :
              /\ quotas[n].SubGroups[i] \in DOMAIN quotas
              /\ quotas[quotas[n].SubGroups[i]].ParentGroup = n

\* a group was moved under a parent that already had another child
C1_Witness ==
    /\ Succeeded("UpdateQuota")
    /\ last.parent # NoGroup
    /\ quotas[last.name].ParentGroup = last.parent
    /\ Len(quotas[last.parent].SubGroups) = 2
    /\ quotas[last.parent].SubGroups[2] = last.name

C3_SnapExclusivity ==
    \A a \in DOMAIN quotas : \A b \in DOMAIN quotas :
        a # b => Range(quotas[a].Snaps) \cap Range(quotas[b].Snaps) = {}

\* a snap of one group was refused to the other group, which has its own snap
C3_Witness ==
    /\ last.op = "UpdateQuota"
    /\ err = ErrSnapInGroup
    /\ \E g \in DOMAIN quotas :
          /\ g # last.name
          /\ Range(last.snaps) \cap Range(quotas[g].Snaps) # {}
          /\ last.name \in DOMAIN quotas
          /\ quotas[last.name].Snaps # <<>>

\* C4: a successful mutation leaves every service whose desired options it
\* changed with a unit that holds the new options.
C4_Converges ==
    [][(last'.op \in MutationOps /\ Idle /\ err' = ErrNone) =>
        \A sn \in InstalledSnaps :
            SnapServiceOptions(sn, quotas') # SnapServiceOptions(sn, quotas)
                => svcUnits'[sn] = SnapServiceOptions(sn, quotas')]_vars

\* C5: RemoveQuota of a group with sub-groups returns an error, writes
\* nothing and reconciles nothing.
C5_RemoveNonLeafFails ==
    [][(/\ Called("RemoveQuota")
        /\ last'.name \in DOMAIN quotas
        /\ Len(quotas[last'.name].SubGroups) # 0)
            => (err' # ErrNone /\ NothingDone)]_vars

\* the removal of a group with two sub-groups was refused
C5_Witness ==
    /\ last.op = "RemoveQuota"
    /\ err = ErrHasSubGroups
    /\ Len(quotas[last.name].SubGroups) = 2

\* C6: UpdateQuota with OrphanSubGroup and a NewParentGroup returns an
\* error and writes nothing, whatever the group and the other fields.
C6_OrphanAndMoveFails ==
    [][(Called("UpdateQuota") /\ last'.orphan /\ last'.parent # NoGroup)
            => (err' # ErrNone /\ quotas' = quotas)]_vars

\* the conflict was reported for a sub-group, with snaps and a limit given
C6_Witness ==
    /\ last.op = "UpdateQuota"
    /\ last.orphan
    /\ last.parent # NoGroup
    /\ last.snaps # <<>>
    /\ last.limit # 0
    /\ err = ErrOrphanAndMove
    /\ quotas[last.name].ParentGroup # NoGroup

\* C7: a successful UpdateQuota with ReplaceSnaps leaves the group with
\* exactly the snaps of AddSnaps.
C7_ReplaceSnaps ==
    [][(Called("UpdateQuota") /\ last'.replace /\ err' = ErrNone)
            => quotas'[last'.name].Snaps = last'.snaps]_vars

\* a snap of the list handed to CreateQuota is in a group already
SnapAlreadyGrouped(snaps, grps) ==
    \E i \in 1..Len(snaps) : \E g \in DOMAIN grps : ListContains(grps[g].Snaps, snaps[i])

\* C8 as stated: CreateQuota with a snap that is in a group fails with the
\* "snap already in group" error and writes nothing.
C8_DupSnapError ==
    [][(Called("CreateQuota") /\ SnapAlreadyGrouped(last'.snaps, quotas))
            => (err' = ErrSnapInGroup /\ quotas' = quotas)]_vars

\* C8 as amended: CreateQuota with a snap that is in a group fails and
\* writes nothing; the error is the "snap already in group" error when
\* quota groups are available, the name is unused and no snap before the
\* first grouped one is unknown.
C8_DupSnapFails ==
    [][(Called("CreateQuota") /\ SnapAlreadyGrouped(last'.snaps, quotas))
            => /\ err' # ErrNone
               /\ quotas' = quotas
               /\ (/\ quotaGroupsAvailable = ErrNone
                   /\ last'.name \notin DOMAIN quotas
                   /\ \A i \in 1..Len(last'.snaps) :
                         (\A j \in 1..(i - 1) :
                             ~SnapAlreadyGrouped(<<last'.snaps[j]>>, quotas))
                            => last'.snaps[i] \in InstalledSnaps)
                      => err' = ErrSnapInGroup]_vars

\* a sub-group was refused because its snap is in the chosen parent
C8_Witness ==
    /\ last.op = "CreateQuota"
    /\ err = ErrSnapInGroup
    /\ last.parent \in DOMAIN quotas
    /\ last.name \notin DOMAIN quotas
    /\ Range(last.snaps) \cap Range(quotas[last.parent].Snaps) # {}

\* C9: an operation that returns a validation error has written nothing
\* and reconciled nothing.
C9_ValidationBeforeWrite ==
    [][(last'.op \in MutationOps /\ Idle /\ err' \in ValidationErrors)
            => NothingDone]_vars

\* an unknown snap was refused to a group that has a parent and a snap
C9_Witness ==
    /\ last.op = "UpdateQuota"
    /\ err = ErrSnapUnknown
    /\ quotas[last.name].ParentGroup # NoGroup
    /\ quotas[last.name].Snaps # <<>>

\* C10: CreateQuota with a name that is in the group set fails and writes
\* nothing, whatever the parent asked for.
C10_NameUnique ==
    [][(Called("CreateQuota") /\ last'.name \in DOMAIN quotas)
            => (err' # ErrNone /\ quotas' = quotas)]_vars

\* a name that is nested under one group was refused under another parent
C10_Witness ==
    /\ last.op = "CreateQuota"
    /\ err = ErrGroupExists
    /\ last.parent \in DOMAIN quotas
    /\ quotas[last.name].ParentGroup \notin {NoGroup, last.parent}

\* C11: after a successful CreateQuota GetQuota of the name returns a group
\* with the given Snaps, MemoryLimit and parent; a non-empty parent has the
\* name appended to its SubGroups and is otherwise unchanged, and no other
\* group changes.
C11_CreateThenGet ==
    [][(Called("CreateQuota") /\ err' = ErrNone) =>
        LET got == GetQuota(quotas', last'.name)
        IN /\ got.err = ErrNone
           /\ got.found
           /\ got.grp.Snaps = last'.snaps
           /\ got.grp.MemoryLimit = last'.limit
           /\ got.grp.ParentGroup = last'.parent
           /\ got.grp.SubGroups = <<>>
           /\ DOMAIN quotas' = DOMAIN quotas \cup {last'.name}
           /\ \A g \in DOMAIN quotas :
                 quotas'[g] = IF g = last'.parent
                              THEN [quotas[g] EXCEPT !.SubGroups = Append(@, last'.name)]
                              ELSE quotas[g]]_vars

\* a group with a snap was created under a parent that has a snap of its own
C11_Witness ==
    /\ Succeeded("CreateQuota")
    /\ last.snaps # <<>>
    /\ last.parent \in DOMAIN quotas
    /\ quotas[last.parent].Snaps # <<>>
    /\ quotas[last.parent].SubGroups = <<last.name>>
    /\ quotas[last.name].Snaps = last.snaps

\* C12: RemoveQuota of an existing group succeeds exactly when the group
\* has no sub-groups; when it succeeds the group is gone from the set, its
\* parent keeps its other sub-groups in order and no other group changes.
C12_RemovableWhenLeaf ==
    [][(Called("RemoveQuota") /\ last'.name \in DOMAIN quotas) =>
        LET grp == quotas[last'.name]
        IN /\ (err' = ErrNone) <=> (grp.SubGroups = <<>>)
           /\ err' = ErrNone =>
                /\ DOMAIN quotas' = DOMAIN quotas \ {grp.Name}
                /\ \A g \in DOMAIN quotas' :
                      quotas'[g] = IF g = grp.ParentGroup
                                   THEN [quotas[g] EXCEPT
                                            !.SubGroups = Without(@, grp.Name)]
                                   ELSE quotas[g]]_vars

\* a group was removed and of the two groups left one is the only sub-group
\* of the other, which RemoveQuota now refuses to remove
C12_Witness ==
    /\ Succeeded("RemoveQuota")
    /\ last.name \notin DOMAIN quotas
    /\ \E p \in DOMAIN quotas : \E c \in DOMAIN quotas :
          /\ p # c
          /\ quotas[p].SubGroups = <<c>>
          /\ quotas[c].SubGroups = <<>>
          /\ RemoveQuotaCheck(p, quotas) = ErrHasSubGroups
          /\ RemoveQuotaCheck(c, quotas) = ErrNone

\* C13: RemoveSnapFromQuota of a member of an existing group takes the snap
\* out of the group's Snaps, keeps the other members in order, writes the
\* set and syncs the units of the remaining members and of the removed
\* snap, whose unit then holds the options of a snap that is in no group.
C13_RemoveSnapResyncs ==
    [][(/\ Called("RemoveSnapFromQuota")
        /\ last'.name \in DOMAIN quotas
        /\ ListContains(quotas[last'.name].Snaps, last'.snaps[1])) =>
        LET snap == last'.snaps[1]
        IN /\ err' = ErrNone
           /\ quotas' = [quotas EXCEPT ![last'.name].Snaps = Without(@, snap)]
           /\ calls' # <<>>
           /\ calls'[1] = <<"EnsureSnapServices",
                            Range(quotas'[last'.name].Snaps) \cup {snap}>>
           /\ SnapServiceOptions(snap, quotas') = <<>>
           /\ svcUnits'[snap] = <<>>]_vars

\* a snap was taken out of a sub-group that keeps another: its unit left the
\* slice and the unit of the other snap is still in it
C13_Witness ==
    /\ Succeeded("RemoveSnapFromQuota")
    /\ quotas[last.name].Snaps # <<>>
    /\ quotas[last.name].ParentGroup # NoGroup
    /\ svcUnits[last.snaps[1]] = <<>>
    /\ \A sn \in Range(quotas[last.name].Snaps) : svcUnits[sn] # <<>>

\* the parent and sub-group entries of the two sets are the same
SameLinks(a, b) ==
    /\ DOMAIN a = DOMAIN b
    /\ \A g \in DOMAIN a : /\ a[g].ParentGroup = b[g].ParentGroup
                           /\ a[g].SubGroups = b[g].SubGroups

\* C14: an UpdateQuota with a NewParentGroup leaves the persisted set either
\* with no link changed or with the group under its new parent, listed by
\* the new parent and no longer listed by its old parent, every other link
\* as before; a successful one leaves the latter.
C14_ReparentAtomic ==
    [][(/\ Called("UpdateQuota")
        /\ last'.parent # NoGroup
        /\ last'.name \in DOMAIN quotas) =>
        LET n == last'.name
            new == last'.parent
            old == quotas[n].ParentGroup
            moved == /\ DOMAIN quotas' = DOMAIN quotas
                     /\ quotas'[n].ParentGroup = new
                     /\ quotas'[new].SubGroups =
                            Append(Without(quotas[new].SubGroups, n), n)
                     /\ old \notin {NoGroup, new} =>
                            quotas'[old].SubGroups = Without(quotas[old].SubGroups, n)
                     /\ \A g \in DOMAIN quotas :
                          /\ g # n => quotas'[g].ParentGroup = quotas[g].ParentGroup
                          /\ g \notin {old, new} =>
                                quotas'[g].SubGroups = quotas[g].SubGroups
        IN /\ quotas' = quotas \/ moved
           /\ err' = ErrNone => moved]_vars

\* a group was moved under a top-level parent as its only sub-group, and the
\* third group of the set is top-level and lists no sub-group
C14_Witness ==
    /\ Succeeded("UpdateQuota")
    /\ last.parent # NoGroup
    /\ quotas[last.name].ParentGroup = last.parent
    /\ quotas[last.parent].SubGroups = <<last.name>>
    /\ \E old \in DOMAIN quotas \ {last.name, last.parent} :
          /\ quotas[old].SubGroups = <<>>
          /\ quotas[old].ParentGroup = NoGroup
          /\ quotas[last.parent].ParentGroup = NoGroup

\* the external calls of the list that are made with the name op
CallsOf(op, cs) == {i \in 1..Len(cs) : cs[i][1] = op}

\* C15: after a successful mutation a second reconciliation of the same
\* group with the same extra snaps, on the set and the units the first one
\* left, is told of no modified unit and restarts no slice, stops no
\* service and starts no service.
C15_ReconcileIdempotent ==
    [][(last'.op \in MutationOps /\ Idle /\ err' = ErrNone) =>
        LET grp == IF last'.op = "RemoveQuota"
                   THEN quotas[last'.name]
                   ELSE quotas'[last'.name]
            extraSnaps == IF last'.op = "RemoveSnapFromQuota" THEN last'.snaps ELSE <<>>
            sns == Range(grp.Snaps \o extraSnaps)
            again == EnsureSnapServices(
                         [sn \in sns |-> SnapServiceOptions(sn, quotas')],
                         quotas', svcUnits', slices')
        IN /\ again.reports = <<>>
           /\ \A order \in AllOrders(again.modifiedSvcs) :
                LET second == ensureSnapServicesForGroup(grp, quotas', extraSnaps,
                                                         again, order)
                IN /\ CallsOf("Restart", second.calls) = {}
                   /\ CallsOf("StopServices", second.calls) = {}
                   /\ CallsOf("StartServices", second.calls) = {}
                   /\ second.svcUnits = svcUnits'
                   /\ second.slices = slices']_vars

\* the first reconciliation restarted a slice and started the services of
\* two snaps
C15_Witness ==
    /\ last.op \in MutationOps
    /\ err = ErrNone
    /\ CallsOf("Restart", calls) # {}
    /\ Cardinality(CallsOf("StartServices", calls)) = 2

\* C16: a successful RemoveQuota stops the slice of the removed group and
\* then removes it, does not restart it and leaves no slice unit of the
\* group; a successful operation of another kind stops no slice.
C16_Tombstone ==
    [][(last'.op \in MutationOps /\ Idle /\ err' = ErrNone) =>
        IF last'.op = "RemoveQuota"
        THEN /\ \E i \in 1..(Len(calls') - 1) :
                  /\ calls'[i] = <<"Stop", last'.name>>
                  /\ calls'[i + 1] = <<"RemoveQuotaGroup", last'.name>>
                  /\ CallsOf("Stop", calls') = {i}
                  /\ CallsOf("RemoveQuotaGroup", calls') = {i + 1}
                  /\ \A j \in CallsOf("Restart", calls') : j < i
             /\ \A j \in CallsOf("Restart", calls') : calls'[j][2] # last'.name
             /\ last'.name \notin DOMAIN slices'
        ELSE /\ CallsOf("Stop", calls') = {}
             /\ CallsOf("RemoveQuotaGroup", calls') = {}]_vars

\* a group with a snap was removed: its slice was stopped and removed,
\* another slice is still there and the services of the snap were started
\* again outside any slice
C16_Witness ==
    /\ Succeeded("RemoveQuota")
    /\ CallsOf("Stop", calls) # {}
    /\ CallsOf("StartServices", calls) # {}
    /\ DOMAIN slices # {}
    /\ \E sn \in calls[1][2] : svcUnits[sn] = <<>>

\* C17: within one reconciliation the slice of a group is restarted at most
\* once.
C17_RestartOnce ==
    \A g \in GroupNames :
        Cardinality({i \in CallsOf("Restart", calls) : calls[i][2] = g}) <= 1

\* C18: every StartServices call of a reconciliation is handed all the
\* services of the snap that are not disabled, in their startup order.
C18_StartsFullSet ==
    \A i \in CallsOf("StartServices", calls) :
        LET sn == calls[i][2]
            enabled(a) == a \notin calls[i][4]
        IN SelectSeq(calls[i][3], enabled) = SelectSeq(Services(sn), enabled)

\* C19: within one reconciliation no service is stopped after a service
\* was started.
C19_NoStopAfterStart ==
    \A i \in CallsOf("StartServices", calls) :
        \A j \in CallsOf("StopServices", calls) : j < i

\* the reconciliation of the last operation failed
ReconcileFailed(e) == e \in {ErrLookup, ErrExternal}

\* C20: an operation whose reconciliation fails returns the error and
\* leaves the persisted group set with the change it declared: the created
\* group is in the set, the removed group or snap is out of it, the updated
\* group has its added snaps and its new parent.
C20_PersistedDespiteFailure ==
    [][(last'.op \in MutationOps /\ Idle /\ ReconcileFailed(err')) =>
        LET n == last'.name
        IN /\ last'.op = "CreateQuota" =>
                /\ n \notin DOMAIN quotas
                /\ n \in DOMAIN quotas'
                /\ quotas'[n].Snaps = last'.snaps
                /\ quotas'[n].ParentGroup = last'.parent
                /\ last'.parent # NoGroup =>
                      ListContains(quotas'[last'.parent].SubGroups, n)
           /\ last'.op = "RemoveQuota" =>
                /\ n \in DOMAIN quotas
                /\ n \notin DOMAIN quotas'
           /\ last'.op = "RemoveSnapFromQuota" =>
                /\ ListContains(quotas[n].Snaps, last'.snaps[1])
                /\ ~ListContains(quotas'[n].Snaps, last'.snaps[1])
           /\ last'.op = "UpdateQuota" =>
                /\ quotas'[n].Snaps = quotas[n].Snaps \o last'.snaps
                /\ last'.parent # NoGroup => quotas'[n].ParentGroup = last'.parent
                /\ last'.orphan => quotas'[n].ParentGroup = NoGroup]_vars

\* a CreateQuota of a sub-group returned the error of a failed service
\* start and the group is in the set under its parent
C20_Witness ==
    /\ last.op = "CreateQuota"
    /\ err = ErrExternal
    /\ calls # <<>>
    /\ calls[Len(calls)][1] = "StartServices"
    /\ last.name \in DOMAIN quotas
    /\ last.parent # NoGroup
    /\ quotas[last.name].ParentGroup = last.parent

\* C21: an operation returns the error of an external call exactly when
\* the call that is set to fail is reached; that call is then the last one
\* made, the units the unit sync wrote before it stay written and the
\* slices restarted before it stay in place.
C21_FailureAborts ==
    [][(last'.op \in MutationOps /\ Idle) =>
        /\ err' = ErrExternal =>
              /\ failing[1] = "call"
              /\ Len(calls') = failing[2]
              /\ Len(calls') > 1 =>
                    /\ \A sn \in calls'[1][2] :
                          svcUnits'[sn] = SnapServiceOptions(sn, quotas')
                    /\ \A j \in CallsOf("Restart", calls') :
                          calls'[j][2] \in DOMAIN slices'
        /\ (err' = ErrNone /\ failing[1] = "call") => Len(calls') < failing[2]]_vars

\* the stop of the services failed after the unit sync and a slice restart:
\* nothing was started
C21_Witness ==
    /\ last.op \in MutationOps
    /\ err = ErrExternal
    /\ CallsOf("Restart", calls) # {}
    /\ calls[Len(calls)][1] = "StopServices"
    /\ CallsOf("StartServices", calls) = {}
    /\ \E sn \in calls[1][2] : svcUnits[sn] # <<>>

GateErrors == {ErrFeatureDisabled, ErrSystemdTooOld}

\* C22: CreateQuota and UpdateQuota return the error of the gate, write
\* nothing and reconcile nothing when the flag is off or systemd is older
\* than 205; with the flag on and systemd 205 the gate lets them through.
C22_Gated ==
    [][(Called("CreateQuota") \/ Called("UpdateQuota")) =>
        /\ (err' = ErrFeatureDisabled) <=> ~featureEnabled
        /\ (err' = ErrSystemdTooOld) <=>
              (featureEnabled /\ systemdVersion < MinSystemdVersion)
        /\ err' \in GateErrors => NothingDone]_vars

\* an UpdateQuota with snaps to add was refused for a sub-group because
\* systemd is too old, and the set still has the group as it was created
C22_Witness ==
    /\ last.op = "UpdateQuota"
    /\ err = ErrSystemdTooOld
    /\ last.snaps # <<>>
    /\ last.name \in DOMAIN quotas
    /\ quotas[last.name].ParentGroup # NoGroup
    /\ quotas[last.name].Snaps = <<>>

\* C23: a successful UpdateQuota leaves the limit of the group as it was
\* when NewMemoryLimit is zero and sets it to NewMemoryLimit otherwise; the
\* limit of every other group is what it was.
C23_LimitUpdate ==
    [][(Called("UpdateQuota") /\ err' = ErrNone) =>
        /\ quotas'[last'.name].MemoryLimit =
              IF last'.limit = 0
              THEN quotas[last'.name].MemoryLimit
              ELSE last'.limit
        /\ \A g \in DOMAIN quotas' \ {last'.name} :
              /\ g \in DOMAIN quotas
              /\ quotas'[g].MemoryLimit = quotas[g].MemoryLimit]_vars

\* an UpdateQuota with a non-zero limit has succeeded on a sub-group: the
\* group has that limit and its parent has another one
C23_Witness ==
    /\ Succeeded("UpdateQuota")
    /\ last.limit = MaxLimit + 1
    /\ quotas[last.name].MemoryLimit = MaxLimit + 1
    /\ quotas[last.name].ParentGroup # NoGroup
    /\ quotas[quotas[last.name].ParentGroup].MemoryLimit = MaxLimit

\* C24: UpdateQuota that orphans a group without a parent, or that names a
\* new parent that does not exist, returns an error and writes nothing,
\* whatever AddSnaps and NewMemoryLimit are.
C24_BadLinkFails ==
    [][(/\ Called("UpdateQuota")
        /\ \/ /\ last'.orphan
              /\ last'.name \in DOMAIN quotas
              /\ quotas[last'.name].ParentGroup = NoGroup
           \/ /\ last'.parent # NoGroup
              /\ last'.parent \notin DOMAIN quotas)
            => (err' # ErrNone /\ NothingDone)]_vars

\* an UpdateQuota that orphans a top-level group and also gives a snap to
\* add and a new limit has failed; the group has no snap and another limit
C24_Witness ==
    /\ last.op = "UpdateQuota"
    /\ err = ErrOrphanNoParent
    /\ last.snaps = <<"s1">>
    /\ last.limit = MaxLimit + 1
    /\ quotas[last.name].Snaps = <<>>
    /\ quotas[last.name].MemoryLimit = MaxLimit

\* C27: no group of the persisted set lists a snap twice.
C27_SnapsIsSet ==
    \A g \in DOMAIN quotas :
        \A i, j \in 1..Len(quotas[g].Snaps) :
            quotas[g].Snaps[i] = quotas[g].Snaps[j] => i = j

\* C29: every group of the persisted set has a limit above zero.


C26_RemovedSnapsUngrouped ==
    [][(Called("RemoveQuota") /\ err' = ErrNone) =>
        \A sn \in Range(quotas[last'.name].Snaps) :
            /\ \A g \in DOMAIN quotas' : ~ListContains(quotas'[g].Snaps, sn)
            /\ sn \in calls'[1][2]
            /\ SnapServiceOptions(sn, quotas') = <<>>
            /\ svcUnits'[sn] = SnapServiceOptions(sn, quotas')]_vars

\* a RemoveQuota has succeeded and has synced the units of s1, which is now
\* in no slice, while a group without snaps is still in the set
C26_Witness ==
    /\ Succeeded("RemoveQuota")
    /\ last.name \notin DOMAIN quotas
    /\ \E g \in DOMAIN quotas : quotas[g].Snaps = <<>>
    /\ Len(calls) > 0
    /\ calls[1] = <<"EnsureSnapServices", {"s1"}>>
    /\ svcUnits["s1"] = <<>>

\* the two groups are equal except, at most, in their SubGroups
SameButSubGroups(a, b) == a = [b EXCEPT !.SubGroups = a.SubGroups]

\* C30: a successful CreateQuota adds the named group and changes the
\* SubGroups of its parent only; UpdateQuota with neither a new parent nor
\* orphaning changes the Snaps and MemoryLimit of the named group only;
\* RemoveSnapFromQuota changes the Snaps of the named group only;
\* RemoveQuota deletes the named group and changes the SubGroups of its
\* parent only.
C30_Frame ==
    [][(last'.op \in MutationOps /\ Idle /\ err' = ErrNone) =>
        LET n == last'.name
        IN /\ Called("CreateQuota") =>
                /\ n \notin DOMAIN quotas
                /\ DOMAIN quotas' = DOMAIN quotas \cup {n}
                /\ \A g \in DOMAIN quotas :
                      IF g = last'.parent
                      THEN SameButSubGroups(quotas'[g], quotas[g])
                      ELSE quotas'[g] = quotas[g]
           /\ (Called("UpdateQuota") /\ last'.parent = NoGroup /\ ~last'.orphan) =>
                /\ DOMAIN quotas' = DOMAIN quotas
                /\ \A g \in DOMAIN quotas \ {n} : quotas'[g] = quotas[g]
                /\ quotas'[n] = [quotas[n] EXCEPT
                                    !.Snaps = quotas'[n].Snaps,
                                    !.MemoryLimit = quotas'[n].MemoryLimit]
           /\ Called("RemoveSnapFromQuota") =>
                /\ DOMAIN quotas' = DOMAIN quotas
                /\ \A g \in DOMAIN quotas \ {n} : quotas'[g] = quotas[g]
                /\ quotas'[n] = [quotas[n] EXCEPT !.Snaps = quotas'[n].Snaps]
           /\ Called("RemoveQuota") =>
                /\ DOMAIN quotas' = DOMAIN quotas \ {n}
                /\ \A g \in DOMAIN quotas' :
                      IF g = quotas[n].ParentGroup
                      THEN SameButSubGroups(quotas'[g], quotas[g])
                      ELSE quotas'[g] = quotas[g]]_vars

\* a CreateQuota of a sub-group with a snap has succeeded under a parent
\* that has another sub-group, and a third group holds the parent's place
C30_Witness ==
    /\ Succeeded("CreateQuota")
    /\ last.parent # NoGroup
    /\ last.snaps # <<>>
    /\ Cardinality(DOMAIN quotas) = 3
    /\ Len(quotas[last.parent].SubGroups) = 2
    /\ quotas[last.parent].Snaps = <<>>

\* C28: every StartServices call of a reconciliation is handed the list of
\* disabled services that QueryDisabledServices answered for that snap in
\* the same turn, and starts no service of that list.
C28_DisabledNotStarted ==
    \A i \in CallsOf("StartServices", calls) :
        /\ i > 3
        /\ calls[i - 3][1] = "QueryDisabledServices"
        /\ calls[i - 3][2] = calls[i][2]
        /\ calls[i][4] = calls[i - 3][3]
        /\ Range(calls[i][5]) \cap calls[i - 3][3] = {}

\* service b of s1 is disabled, its unit was modified, it was stopped, and
\* the StartServices call for s1 has started a and not b
C28_Witness ==
    \E i \in CallsOf("StartServices", calls) :
        /\ calls[i][2] = "s1"
        /\ calls[i - 3][3] = {"b"}
        /\ ListContains(calls[i - 1][3], "b")
        /\ ListContains(calls[i][3], "b")
        /\ calls[i][5] = <<"a">>

\* C25: an operation that succeeds sets the stored group set exactly once,
\* to a set in which the links of all the groups it touched agree and which
\* is the set read afterwards; an operation that fails a validation sets it
\* not at all; so the set read after an operation is the one read before it
\* or the one value the operation wrote.
C25_OneWrite ==
    [][(last'.op \in MutationOps /\ Idle) =>
        /\ err' = ErrNone =>
              /\ written' = <<quotas'>>
              /\ ResolveCrossReferences(quotas') = ErrNone
        /\ err' \in ValidationErrors =>
              /\ written' = <<>>
              /\ quotas' = quotas
        /\ Len(written') <= 1
        /\ quotas' \in {quotas} \cup Range(written')]_vars

\* an UpdateQuota that moves a group of a set of three to a new parent has
\* succeeded with one write, of the set that is stored
C25_Witness ==
    /\ Succeeded("UpdateQuota")
    /\ last.parent # NoGroup
    /\ Cardinality(DOMAIN quotas) = 3
    /\ quotas[last.name].ParentGroup = last.parent
    /\ Len(written) = 1
    /\ written[1] = quotas

SliceCalls == {"Restart", "Stop", "RemoveQuotaGroup"}

ServiceCalls == {"QueryDisabledServices", "SortServices", "StopServices", "StartServices"}

\* C31: in the calls of one reconciliation the unit sync is first, every
\* slice restart, stop and removal comes before every call on the services
\* of a snap, and the StartServices call of a snap comes after the
\* StopServices call of that snap.
C31_StepOrder ==
    /\ \A i \in 1..Len(calls) : calls[i][1] = "EnsureSnapServices" <=> i = 1
    /\ \A i, j \in 1..Len(calls) :
          (calls[i][1] \in SliceCalls /\ calls[j][1] \in ServiceCalls) => i < j
    /\ \A i \in CallsOf("StartServices", calls) :
          /\ \E j \in CallsOf("StopServices", calls) :
                j < i /\ calls[j][2] = calls[i][2]
          /\ \A j \in CallsOf("StopServices", calls) :
                calls[j][2] = calls[i][2] => j < i

\* a reconciliation of a removed group has restarted a slice, stopped and
\* removed the slice of the group, and then stopped and started the
\* services of two snaps
C31_Witness ==
    /\ last.op = "ensureSnapServicesForGroup"
    /\ CallsOf("Restart", calls) # {}
    /\ CallsOf("RemoveQuotaGroup", calls) # {}
    /\ {calls[i][2] : i \in CallsOf("StartServices", calls)} = {"s1", "s2"}

C33_SubGroupsOnce ==
    \A g \in DOMAIN quotas :
        \A i, j \in 1..Len(quotas[g].SubGroups) :
            quotas[g].SubGroups[i] = quotas[g].SubGroups[j] => i = j

\* an UpdateQuota that names as new parent a group with two sub-groups has
\* succeeded, and the group is the last of the two
C33_Witness ==
    /\ Succeeded("UpdateQuota")
    /\ last.parent \in DOMAIN quotas
    /\ last.parent # last.name
    /\ Len(quotas[last.parent].SubGroups) = 2
    /\ quotas[last.parent].SubGroups[2] = last.name
    /\ quotas[last.parent].SubGroups[1] # last.name

\* C34: with the flag off or systemd older than 205, RemoveQuota of a group
\* without sub-groups and RemoveSnapFromQuota of a snap of the group succeed
\* and change the persisted set, while CreateQuota and UpdateQuota return
\* the error of the gate.
C34_RemovalsNotGated ==
    [][(Idle /\ quotaGroupsAvailable # ErrNone) =>
        LET n == last'.name
        IN /\ (Called("RemoveQuota") /\ n \in DOMAIN quotas
                  /\ quotas[n].SubGroups = <<>>) =>
                (err' = ErrNone /\ n \notin DOMAIN quotas')
           /\ (Called("RemoveSnapFromQuota") /\ n \in DOMAIN quotas
                  /\ ListContains(quotas[n].Snaps, last'.snaps[1])) =>
                (err' = ErrNone /\ ~ListContains(quotas'[n].Snaps, last'.snaps[1]))
           /\ (Called("CreateQuota") \/ Called("UpdateQuota")) =>
                err' \in GateErrors]_vars

\* with the flag off, a RemoveQuota has succeeded: its group is gone and
\* another group is still in the set
C34_Witness ==
    /\ Succeeded("RemoveQuota")
    /\ ~featureEnabled
    /\ last.name \notin DOMAIN quotas
    /\ DOMAIN quotas # {}

\* C35: CreateQuota, UpdateQuota and RemoveSnapFromQuota reconcile a group
\* that is in the set they have written: whatever they return, they make no
\* Stop and no RemoveQuotaGroup call and every slice unit that was there is
\* still there; a slice unit goes away only in a RemoveQuota, and only the
\* one of the removed group.
C35_OnlyRemoveQuotaStops ==
    [][(last'.op \in MutationOps /\ Idle) =>
        /\ last'.op # "RemoveQuota" =>
              /\ (err' = ErrNone => last'.name \in DOMAIN quotas')
              /\ CallsOf("Stop", calls') = {}
              /\ CallsOf("RemoveQuotaGroup", calls') = {}
        /\ DOMAIN slices \ DOMAIN slices' \subseteq
              (IF last'.op = "RemoveQuota" THEN {last'.name} ELSE {})]_vars

\* a RemoveSnapFromQuota has succeeded and has restarted the services of
\* the snap, and the slice of its group is still there
C35_Witness ==
    /\ Succeeded("RemoveSnapFromQuota")
    /\ last.name \in DOMAIN slices
    /\ CallsOf("StartServices", calls) # {}
    /\ CallsOf("Stop", calls) = {}

\* C36: an operation whose reconciliation cannot look up a snap or its
\* options returns that error with no external call made and no unit
\* changed, after it has written the group set once; when look-ups fail, an
\* operation succeeds only if its reconciliation had no snap to look up.
C36_LookupFailsEarly ==
    [][(last'.op \in MutationOps /\ Idle) =>
        /\ err' = ErrLookup =>
              /\ failing = FailLookup
              /\ calls' = <<>>
              /\ svcUnits' = svcUnits
              /\ slices' = slices
              /\ written' = <<quotas'>>
        /\ (failing = FailLookup /\ err' = ErrNone) => calls'[1][2] = {}]_vars

\* a RemoveSnapFromQuota has failed on the look-up of the snap: the snap is
\* out of the group in the persisted set, no call was made and the unit of
\* the snap is still in a slice
C36_Witness ==
    /\ last.op = "RemoveSnapFromQuota"
    /\ err = ErrLookup
    /\ calls = <<>>
    /\ ~ListContains(quotas[last.name].Snaps, last.snaps[1])
    /\ svcUnits[last.snaps[1]] # <<>>

\* the accessor has changed nothing
ReadOnly ==
    /\ quotas' = quotas
    /\ written' = <<>>
    /\ calls' = <<>>
    /\ svcUnits' = svcUnits
    /\ slices' = slices

\* C37 as stated: AllQuotas on a state with no group set stored returns no
\* groups and no error, GetQuota of a name that is not in the set returns
\* no group and no error, and neither changes anything.
C37_ReadsTotal ==
    [][/\ Called("AllQuotas") =>
            /\ ReadOnly
            /\ quotas = EmptyGroups =>
                  (err' = ErrNone /\ returned' = [kind |-> "groups", grps |-> EmptyGroups])
       /\ Called("GetQuota") =>
            /\ ReadOnly
            /\ last'.name \notin DOMAIN quotas =>
                  (err' = ErrNone /\ returned' = [kind |-> "nil"])]_vars

\* C37 as amended: the same when the stored set passes the cross-reference
\* resolution; when it does not, both accessors return the error of the
\* resolution and nil; with no error AllQuotas returns the stored set and
\* GetQuota the stored group of the name; neither changes anything.
C37_ReadsTotalWhenResolved ==
    [][/\ Called("AllQuotas") =>
            /\ ReadOnly
            /\ quotas = EmptyGroups =>
                  (err' = ErrNone /\ returned' = [kind |-> "groups", grps |-> EmptyGroups])
            /\ IF ResolveCrossReferences(quotas) = ErrNone
               THEN err' = ErrNone /\ returned' = [kind |-> "groups", grps |-> quotas]
               ELSE err' = ErrInconsistent /\ returned' = [kind |-> "nil"]
       /\ Called("GetQuota") =>
            /\ ReadOnly
            /\ IF ResolveCrossReferences(quotas) # ErrNone
               THEN err' = ErrInconsistent /\ returned' = [kind |-> "nil"]
               ELSE /\ err' = ErrNone
                    /\ returned' = IF last'.name \in DOMAIN quotas
                                   THEN [kind |-> "group", grp |-> quotas[last'.name]]
                                   ELSE [kind |-> "nil"]]_vars

\* GetQuota of a name that is not in a stored set of one group has returned
\* nil and no error
C37_Witness ==
    /\ Succeeded("GetQuota")
    /\ last.name \notin DOMAIN quotas
    /\ DOMAIN quotas # {}
    /\ returned = [kind |-> "nil"]

\* the invariants of a group set: the links agree, no group is its own
\* ancestor, no snap is in two groups
ValidGroupSet(grps) ==
    /\ ResolveCrossReferences(grps) = ErrNone
    /\ \A n \in DOMAIN grps : n \notin Ancestors(n, grps, Cardinality(DOMAIN grps))
    /\ \A a, b \in DOMAIN grps :
          a # b => Range(grps[a].Snaps) \cap Range(grps[b].Snaps) = {}

\* SetQuota on a set that loads returns no error whatever the group is,
\* sets the entry of the name of the group to the group and leaves every
\* other entry; on a set that does not load it returns the error and
\* writes nothing; it makes no external call
SetQuotaFrame ==
    Called("SetQuota") =>
        /\ calls' = <<>>
        /\ svcUnits' = svcUnits
        /\ slices' = slices
        /\ IF ResolveCrossReferences(quotas) # ErrNone
           THEN err' = ErrInconsistent /\ quotas' = quotas
           ELSE /\ err' = ErrNone
                /\ DOMAIN quotas' = DOMAIN quotas \cup {last'.name}
                /\ quotas'[last'.name] = last'.grp
                /\ \A g \in DOMAIN quotas \ {last'.name} : quotas'[g] = quotas[g]

====
